---- MODULE Spec2Model ----
(***************************************************************************)
(* A model of the avatar companion front-end: the App component (chat      *)
(* pipeline, Voice/Call conditional mount), the Voice component            *)
(* (text-to-speech with lip-sync frames), the Call component (remote       *)
(* conversation session with lip-sync / blink / head-movement / duration   *)
(* intervals), the AnimeAvatar render loop and the analyzeEmotion          *)
(* classifier.                                                             *)
(*                                                                         *)
(* Weights and volumes are modelled in hundredths (100 stands for 1.0)     *)
(* and samples of Math.random() in thousandths.                            *)
(* Time in the render loop is counted in tenths of a render tick: one      *)
(* tick of 1/60 s is 10 units, one second is 600 units.                    *)
(***************************************************************************)
EXTENDS Integers, Sequences, FiniteSets, TLC

\* ------------------------------------------------------------------------
\* Bounds of the model
\* ------------------------------------------------------------------------
\* Call component instances mounted over a run
MaxCalls == 2
\* startCall invocations over a run
MaxSessions == 2
\* accepted handleSendMessage invocations over a run
MaxSends == 2
\* blink-restore timeouts of one Call instance pending at once
MaxRestores == 1
\* cap of the call-duration counter
MaxDuration == 2

Max(a, b) == IF a >= b THEN a ELSE b
Min(a, b) == IF a <= b THEN a ELSE b
Abs(a) == IF a < 0 THEN -a ELSE a

\* samples of Math.sin(...), in hundredths, and of Math.random(), in thousandths
SinSamples == {-100, 100}
RandomSamples == {0, 999}

CallIds == 1..MaxCalls
VoiceIds == 1..(MaxCalls + 1)
SessionIds == 1..MaxSessions
\* one speakWithLipSync invocation per reply at most
SpeakIds == 1..MaxSends
SendIds == 1..MaxSends
Kinds == {"lip", "blink", "head", "timer"}

VARIABLES
  \* ---- AnimeAvatar handle state (README.md 243-244)
  currentMouthOpen,    \* currentMouthOpen.current, hundredths
  currentExpression,   \* currentExpression.current
  \* ---- App (part_001)
  appIsInCall,         \* App.isInCall: Call is mounted iff TRUE, Voice iff FALSE
  callInst,            \* number of Call instances mounted so far; the mounted one is callInst
  voiceInst,           \* number of Voice instances mounted so far; the mounted one is voiceInst
  \* ---- Call (Call.tsx): React state of the mounted instance
  call,                \* [isInCall, agentStatus, isListening, isProcessing, callDuration,
                       \*  currentTranscript, currentEmotion]
  \* ---- Call: refs of every instance (closures of its sessions keep them alive)
  refs,                \* refs[i][k]: "null", "live" (holds a running interval), "dead" (holds a cleared id)
  orphans,             \* orphans[i][k]: running intervals started by instance i that no ref holds
  conversationRef,     \* conversationRef[i]: 0 (null) or a session
  blinkRestores,       \* blinkRestores[i]: pending 150 ms blink-restore timeouts set by instance i
  sessions,            \* sessions[s]: [st, owner, transcript, emotion] one per startCall
                       \* invocation, with the history speakingRun: 'speaking' mode
                       \* events in a row with no 'listening' between them (2: two or more),
                       \* heard: what the user said last in the session, and micHeld:
                       \* the stream getUserMedia gave the invocation is still live
  callEnded,           \* history: the Call instances whose endCall has returned
  \* ---- Voice (Voice.tsx, useVoice in part_002)
  voice,               \* React state of the mounted instance:
                       \* [isSpeaking, enabled, isListening, transcript], with the
                       \* history submitted: how often handleSendMessage accepted
                       \* the current transcript (2: twice or more)
  audioElementRef,     \* audioElementRef[v]: 0 (null) or the speak whose Audio it holds
  onAudioPlayFrameRef, \* onAudioPlayFrameRef[v]: TRUE when the App callback is registered
  speaks,              \* speaks[r]: [st, owner, raf] one per speakWithLipSync invocation
  \* ---- App chat pipeline (part_001 205-346)
  messages,            \* the chat log
  isProcessing,        \* App.isProcessing
  isTyping,            \* App.isTyping
  requests,            \* requests[q]: [st, text] one per accepted handleSendMessage, with
                       \* the history remote: "none", or whether the remote call of the
                       \* request "returned" or "threw"
  greetingPending,     \* the 1500 ms greeting timer has not fired yet
  \* ---- AnimeAvatar (README.md 236-372)
  loop,                \* [mounted, running, frame, disposed]: whether the avatar component
                       \* is mounted, the effect's running flag, whether an animation
                       \* frame is requested, whether the renderer is disposed
  vrm,                 \* "loading", "loaded" (vrmRef.current is set) or "failed"
  avatarError,         \* the error state shown as the banner: "none" or a message
  blinkTimer,          \* blinkTimer, in tenths of a tick
  isBlinking,          \* isBlinking
  nextBlink,           \* nextBlink, in tenths of a tick
  blendShape,          \* the weights set on the model's expression manager, hundredths
  idleBlink,           \* the blink weight the blinking logic wrote in the last tick
  blinkRun,            \* history: ticks in a row that wrote the current idleBlink
  lastGap,             \* history: ticks from the end of a blink to the start of the next (0: none yet)
  lastClosed,          \* history: ticks the last finished blink held the weight at 1.0 (0: none yet)
  \* ---- analyzeEmotion applied to a text
  emotionText,         \* the text
  emotionResult        \* "none" or what analyzeEmotion returned for emotionText

renderVars == <<loop, vrm, avatarError, blinkTimer, isBlinking, nextBlink, blendShape,
                idleBlink, blinkRun, lastGap, lastClosed>>
emotionVars == <<emotionText, emotionResult>>
chatVars == <<messages, isProcessing, isTyping, requests, greetingPending>>
voiceVars == <<voice, audioElementRef, onAudioPlayFrameRef, speaks>>
callVars == <<call, refs, orphans, conversationRef, blinkRestores, sessions, callEnded>>
avatarHandleVars == <<currentMouthOpen, currentExpression>>
mountVars == <<appIsInCall, callInst, voiceInst>>
vars == <<currentMouthOpen, currentExpression, appIsInCall, callInst, voiceInst,
          call, refs, orphans, conversationRef, blinkRestores, sessions, callEnded,
          voice, audioElementRef, onAudioPlayFrameRef, speaks,
          messages, isProcessing, isTyping, requests, greetingPending,
          loop, vrm, avatarError, blinkTimer, isBlinking, nextBlink, blendShape,
          idleBlink, blinkRun, lastGap, lastClosed, emotionText, emotionResult>>

\* ------------------------------------------------------------------------
\* analyzeEmotion (Call.tsx 125-146)
\* ------------------------------------------------------------------------
\* A text is a sequence of tokens (words and emoji).  A token stands for a
\* piece of text; Substrings gives the keywords of analyzeEmotion that occur in
\* it as a substring, case-sensitively as String.prototype.includes matches.
MaxTextLen == 2

Tokens ==
  {"love", "LOVE", "lovely", "emoji_two_hearts", "amazing", "happy", "Excited",
   "sad", "missed", "wow", "angry", "hmm", "blushing", "ok"}

Substrings(tok) ==
  CASE tok = "lovely" -> {"love"}
    [] tok = "missed" -> {"miss"}
    [] tok = "blushing" -> {"blush"}
    [] tok = "excited" -> {"excited"}
    [] OTHER -> {tok}

\* String.prototype.toLowerCase, token by token
LowerToken(tok) ==
  CASE tok = "LOVE" -> "love"
    [] tok = "Excited" -> "excited"
    [] OTHER -> tok

toLowerCase(text) == [k \in DOMAIN text |-> LowerToken(text[k])]

includes(text, kw) == \E k \in DOMAIN text : kw \in Substrings(text[k])

Texts == UNION {[1..n -> Tokens] : n \in 0..MaxTextLen}

analyzeEmotion_JoyFirst(text) ==
  LET lowerText == toLowerCase(text)
  IN IF includes(lowerText, "happy") \/ includes(lowerText, "emoji_sparkles")
        \/ includes(lowerText, "wonderful") \/ includes(lowerText, "excited")
     THEN "joy"
     ELSE IF includes(lowerText, "love") \/ includes(lowerText, "emoji_two_hearts")
        \/ includes(lowerText, "emoji_sparkling_heart") \/ includes(lowerText, "amazing")
     THEN "love"
     ELSE IF includes(lowerText, "sad") \/ includes(lowerText, "miss")
        \/ includes(lowerText, "emoji_crying")
     THEN "sadness"
     ELSE IF includes(lowerText, "surprised") \/ includes(lowerText, "wow")
        \/ includes(lowerText, "emoji_open_mouth")
     THEN "surprise"
     ELSE IF includes(lowerText, "angry") \/ includes(lowerText, "mad")
        \/ includes(lowerText, "emoji_angry")
     THEN "anger"
     ELSE IF includes(lowerText, "confused") \/ includes(lowerText, "hmm")
        \/ includes(lowerText, "emoji_thinking")
     THEN "confusion"
     ELSE IF includes(lowerText, "shy") \/ includes(lowerText, "blush")
        \/ includes(lowerText, "emoji_smiling")
     THEN "blushing"
     ELSE "neutral"

analyzeEmotion(text) ==
  LET lowerText == toLowerCase(text)
  IN IF includes(lowerText, "love") \/ includes(lowerText, "emoji_two_hearts")
        \/ includes(lowerText, "emoji_sparkling_heart") \/ includes(lowerText, "amazing")
     THEN "love"
     ELSE IF includes(lowerText, "happy") \/ includes(lowerText, "emoji_sparkles")
        \/ includes(lowerText, "wonderful") \/ includes(lowerText, "excited")
     THEN "joy"
     ELSE IF includes(lowerText, "sad") \/ includes(lowerText, "miss")
        \/ includes(lowerText, "emoji_crying")
     THEN "sadness"
     ELSE IF includes(lowerText, "surprised") \/ includes(lowerText, "wow")
        \/ includes(lowerText, "emoji_open_mouth")
     THEN "surprise"
     ELSE IF includes(lowerText, "angry") \/ includes(lowerText, "mad")
        \/ includes(lowerText, "emoji_angry")
     THEN "anger"
     ELSE IF includes(lowerText, "confused") \/ includes(lowerText, "hmm")
        \/ includes(lowerText, "emoji_thinking")
     THEN "confusion"
     ELSE IF includes(lowerText, "shy") \/ includes(lowerText, "blush")
        \/ includes(lowerText, "emoji_smiling")
     THEN "blushing"
     ELSE "neutral"

\* ------------------------------------------------------------------------
\* Call.tsx
\* ------------------------------------------------------------------------
\* useState initial values, Call.tsx 19-27
CallInitialState ==
  [isInCall |-> FALSE, agentStatus |-> "disconnected", isListening |-> FALSE,
   isProcessing |-> FALSE, callDuration |-> 0, currentTranscript |-> << >>,
   currentEmotion |-> "neutral"]

\* useRef(null), Call.tsx 29-33
CallInitialRefs == [k \in Kinds |-> "null"]

\* window.clearInterval(id) seen from the ref that holds id
clearInterval(r) == IF r = "live" THEN "dead" ELSE r

\* ref.current = window.setInterval(...): the interval the ref held before keeps
\* running unless it was cleared
setIntervalInto(R, k) ==
  [ref |-> [R.ref EXCEPT ![k] = "live"],
   orph |-> [R.orph EXCEPT ![k] = @ + (IF R.ref[k] = "live" THEN 1 ELSE 0)]]

\* if (ref.current) clearInterval(ref.current)
clearIfSet(R, k) ==
  IF R.ref[k] # "null" THEN [R EXCEPT !.ref[k] = clearInterval(@)] ELSE R

\* if (ref.current) { clearInterval(ref.current); ref.current = null }
clearAndNull(R, k) ==
  IF R.ref[k] # "null" THEN [R EXCEPT !.ref[k] = "null"] ELSE R

startLipSync_NoClear(R) == setIntervalInto(R, "lip")
startLipSync(R) == setIntervalInto(clearIfSet(R, "lip"), "lip")
startBlinking_NoClear(R) == setIntervalInto(R, "blink")
startBlinking(R) == setIntervalInto(clearIfSet(R, "blink"), "blink")
startHeadMovement(R) == setIntervalInto(clearIfSet(R, "head"), "head")
\* the interval part of stopLipSync; its setMouthOpen(0) is written by the callers
stopLipSync(R) == clearAndNull(R, "lip")
stopBlinking(R) == clearAndNull(R, "blink")
stopHeadMovement(R) == clearAndNull(R, "head")

\* Math.max(0, Math.min(1, baseOpen + variation + random)), Call.tsx 48-52
LipSyncMouthOpen(s, r) ==
  Max(0, Min(100, 20 + ((s * 30) \div 100) + (((r - 500) * 10) \div 1000)))

\* the refs of instance i as one value
RefsOf(i) == [ref |-> refs[i], orph |-> orphans[i]]

\* is Call instance i the mounted one?
CallMounted(i) == appIsInCall /\ callInst = i

\* running intervals of kind k started by instance i
LiveIntervals(i, k) == orphans[i][k] + (IF refs[i][k] = "live" THEN 1 ELSE 0)

\* ------------------------------------------------------------------------
\* App: the Voice / Call conditional mount (part_001 396-420)
\* ------------------------------------------------------------------------
\* useVoice initial state (part_002 5-16)
VoiceInitialState ==
  [isSpeaking |-> FALSE, enabled |-> TRUE, isListening |-> FALSE, transcript |-> "",
   submitted |-> 0]

VoiceMounted(v) == ~appIsInCall /\ voiceInst = v

\* the cleanup of Call's unmount effect (Call.tsx 296-302) calls endCall only
\* when the isInCall of its closure is true; the effect has no dependencies, so
\* the closure is the one of the mount render
UnmountCleanupEndsCall == CallInitialState.isInCall

\* App.setIsInCall(b) and the re-render it causes.  callAfter is the state the
\* handler leaves in the mounted Call instance when the mount does not change.
\* A newly mounted component starts from its initial state; the state of an
\* unmounted one is gone (kept at its initial value here).
AppSetIsInCall(b, callAfter) ==
  /\ appIsInCall' = b
  /\ IF b /\ ~appIsInCall
     THEN /\ callInst < MaxCalls
          /\ callInst' = callInst + 1
          /\ call' = CallInitialState
          /\ voiceInst' = voiceInst
          /\ voice' = VoiceInitialState
     ELSE IF ~b /\ appIsInCall
     THEN /\ ~UnmountCleanupEndsCall
          /\ callInst' = callInst
          /\ call' = CallInitialState
          /\ voiceInst' = voiceInst + 1
          /\ voice' = VoiceInitialState
     ELSE /\ callInst' = callInst
          /\ call' = callAfter
          /\ voiceInst' = voiceInst
          /\ voice' = voice

\* "Start Voice Call" button, part_001 403-409: onClick={() => setIsInCall(true)}
OpenCallPanel ==
  /\ ~appIsInCall
  /\ AppSetIsInCall(TRUE, call)
  /\ UNCHANGED <<refs, orphans, conversationRef, blinkRestores, sessions, callEnded>>
  /\ UNCHANGED <<audioElementRef, onAudioPlayFrameRef, speaks, chatVars, renderVars, emotionVars>>
  /\ UNCHANGED avatarHandleVars

\* ------------------------------------------------------------------------
\* Call.tsx: startCall and the session callbacks
\* ------------------------------------------------------------------------
\* a React set-state of Call instance i reaches the state only while i is mounted
CallAfter(i, c) == IF CallMounted(i) THEN c ELSE call

SetRefs(i, R) ==
  /\ refs' = [refs EXCEPT ![i] = R.ref]
  /\ orphans' = [orphans EXCEPT ![i] = R.orph]

FreeSession(s) ==
  /\ sessions[s].st = "unused"
  /\ \A q \in SessionIds : q < s => sessions[q].st # "unused"

\* startCall up to the first await (Call.tsx 155-167); the closure of this
\* invocation keeps the currentTranscript and currentEmotion of its render
StartCall(s) ==
  /\ appIsInCall
  /\ ~call.isInCall
  /\ FreeSession(s)
  /\ sessions' = [sessions EXCEPT ![s] =
                    [st |-> "mic", owner |-> callInst,
                     transcript |-> call.currentTranscript,
                     emotion |-> call.currentEmotion,
                     speakingRun |-> 0, heard |-> << >>, micHeld |-> FALSE]]
  /\ call' = [call EXCEPT !.agentStatus = "connecting"]
  /\ UNCHANGED <<refs, orphans, conversationRef, blinkRestores, callEnded>>
  /\ UNCHANGED <<mountVars, voiceVars, avatarHandleVars, chatVars, renderVars, emotionVars>>

\* getUserMedia resolves with a live stream, which the await expression
\* statement drops (Call.tsx 161-167): no track of it is ever stopped anywhere
\* in Call.tsx.  Conversation.startSession is called (Call.tsx 169-174)
MicGranted(s) ==
  /\ sessions[s].st = "mic"
  /\ sessions' = [sessions EXCEPT ![s].st = "starting", ![s].micHeld = TRUE]
  /\ UNCHANGED <<call, refs, orphans, conversationRef, blinkRestores, callEnded>>
  /\ UNCHANGED <<mountVars, voiceVars, avatarHandleVars, chatVars, renderVars, emotionVars>>

\* the catch block of startCall, Call.tsx 233-237
startCallCatch_NoStatus(c) == c
startCallCatch(c) == [c EXCEPT !.agentStatus = "error"]

\* getUserMedia rejects (permission denied): control goes to the catch block
MicDenied(s) ==
  /\ sessions[s].st = "mic"
  /\ sessions' = [sessions EXCEPT ![s].st = "denied"]
  /\ call' = CallAfter(sessions[s].owner, startCallCatch(call))
  /\ UNCHANGED <<refs, orphans, conversationRef, blinkRestores, callEnded>>
  /\ UNCHANGED <<mountVars, voiceVars, avatarHandleVars, chatVars, renderVars, emotionVars>>

\* Conversation.startSession rejects before connecting: the catch block
StartSessionFails(s) ==
  /\ sessions[s].st = "starting"
  /\ sessions' = [sessions EXCEPT ![s].st = "failed"]
  /\ call' = CallAfter(sessions[s].owner, startCallCatch(call))
  /\ UNCHANGED <<refs, orphans, conversationRef, blinkRestores, callEnded>>
  /\ UNCHANGED <<mountVars, voiceVars, avatarHandleVars, chatVars, renderVars, emotionVars>>

\* onConnect, Call.tsx 175-189
OnConnect(s) ==
  LET i == sessions[s].owner
      R == setIntervalInto(startHeadMovement(startBlinking(RefsOf(i))), "timer")
      c == [call EXCEPT !.agentStatus = "connected", !.isInCall = TRUE]
  IN /\ sessions[s].st = "starting"
     /\ sessions' = [sessions EXCEPT ![s].st = "connected"]
     /\ SetRefs(i, R)
     /\ AppSetIsInCall(TRUE, CallAfter(i, c))
     /\ UNCHANGED <<conversationRef, blinkRestores, callEnded>>
     /\ UNCHANGED <<audioElementRef, onAudioPlayFrameRef, speaks, chatVars, renderVars, emotionVars>>
     /\ UNCHANGED avatarHandleVars

\* the awaited startSession promise resolves: conversationRef.current = ... (Call.tsx 172)
SessionResolved(s) ==
  /\ sessions[s].st = "connected"
  /\ sessions' = [sessions EXCEPT ![s].st = "open"]
  /\ conversationRef' = [conversationRef EXCEPT ![sessions[s].owner] = s]
  /\ UNCHANGED <<call, refs, orphans, blinkRestores, callEnded>>
  /\ UNCHANGED <<mountVars, voiceVars, avatarHandleVars, chatVars, renderVars, emotionVars>>

SessionLive(s) == sessions[s].st \in {"connected", "open"}

\* onDisconnect, Call.tsx 190-200
OnDisconnect(s) ==
  LET i == sessions[s].owner
      c == [call EXCEPT !.agentStatus = "disconnected", !.isInCall = FALSE,
                        !.isListening = FALSE]
  IN /\ SessionLive(s)
     /\ sessions' = [sessions EXCEPT ![s].st = "closed"]
     /\ SetRefs(i, clearIfSet(RefsOf(i), "timer"))
     /\ AppSetIsInCall(FALSE, CallAfter(i, c))
     /\ UNCHANGED <<conversationRef, blinkRestores, callEnded>>
     /\ UNCHANGED <<audioElementRef, onAudioPlayFrameRef, speaks, chatVars, renderVars, emotionVars>>
     /\ UNCHANGED avatarHandleVars

\* onError, Call.tsx 201-204
OnError(s) ==
  /\ SessionLive(s)
  /\ call' = CallAfter(sessions[s].owner, [call EXCEPT !.agentStatus = "error"])
  /\ UNCHANGED <<refs, orphans, conversationRef, blinkRestores, sessions, callEnded>>
  /\ UNCHANGED <<mountVars, voiceVars, avatarHandleVars, chatVars, renderVars, emotionVars>>

\* onModeChange, Call.tsx 205-230.  setAvatarEmotion (148-153) sets the state
\* currentEmotion and the avatar's expression.
OnModeChange(s, mode) ==
  LET i == sessions[s].owner
      R0 == RefsOf(i)
      known == sessions[s].transcript # << >>
      emotion == analyzeEmotion(sessions[s].transcript)
  IN /\ SessionLive(s)
     /\ IF mode = "speaking"
        THEN /\ SetRefs(i, startHeadMovement(startBlinking(startLipSync(R0))))
             /\ call' = CallAfter(i, [call EXCEPT
                          !.isListening = FALSE, !.isProcessing = TRUE,
                          !.currentEmotion = IF known THEN emotion ELSE @])
             /\ currentExpression' = IF known THEN emotion ELSE currentExpression
             /\ currentMouthOpen' = currentMouthOpen
             /\ sessions' = [sessions EXCEPT ![s].speakingRun = Min(2, @ + 1)]
        ELSE /\ SetRefs(i, startHeadMovement(startBlinking(stopLipSync(R0))))
             /\ call' = CallAfter(i, [call EXCEPT
                          !.isListening = TRUE, !.isProcessing = FALSE,
                          !.currentEmotion = "neutral"])
             /\ currentExpression' = "neutral"
             /\ currentMouthOpen' = 0
             /\ sessions' = [sessions EXCEPT ![s].speakingRun = 0]
     /\ UNCHANGED <<conversationRef, blinkRestores, callEnded>>
     /\ UNCHANGED <<mountVars, voiceVars, chatVars, renderVars, emotionVars>>

\* what the user can say during a call
UserUtterances == {<< "love" >>}

\* the user says something during the call and the session transcribes it.  The
\* options passed to Conversation.startSession (Call.tsx 169-231) hold onConnect,
\* onDisconnect, onError and onModeChange only: no callback receives the
\* utterance, nothing calls setCurrentTranscript with it, and the onTranscript
\* prop is never called.
UserSpeaks(s, text) ==
  /\ SessionLive(s)
  /\ sessions' = [sessions EXCEPT ![s].heard = text]
  /\ UNCHANGED <<call, refs, orphans, conversationRef, blinkRestores, callEnded>>
  /\ UNCHANGED <<mountVars, voiceVars, avatarHandleVars, chatVars, renderVars, emotionVars>>

\* conversationRef.current.endSession(): the session is over and delivers no
\* further events.  (Whatever onDisconnect does when the library calls it from
\* endSession is repeated by the rest of endCall.)
endSession(ss, s) ==
  IF s # 0 /\ ss[s].st \in {"connected", "open"} THEN [ss EXCEPT ![s].st = "closed"] ELSE ss

\* endCall, Call.tsx 240-270; the "End Call" button is rendered while isInCall
EndCall ==
  LET i == callInst
      R == clearIfSet(stopHeadMovement(stopBlinking(stopLipSync(RefsOf(i)))), "timer")
  IN /\ appIsInCall
     /\ call.isInCall
     /\ SetRefs(i, R)
     /\ sessions' = endSession(sessions, conversationRef[i])
     /\ conversationRef' = [conversationRef EXCEPT ![i] = 0]
     /\ currentExpression' = "neutral"
     /\ currentMouthOpen' = 0
     /\ AppSetIsInCall(FALSE, CallInitialState)
     /\ callEnded' = callEnded \cup {i}
     /\ UNCHANGED blinkRestores
     /\ UNCHANGED <<audioElementRef, onAudioPlayFrameRef, speaks, chatVars, renderVars, emotionVars>>

\* ------------------------------------------------------------------------
\* Call.tsx: the interval and timeout callbacks
\* ------------------------------------------------------------------------
\* a tick of a lip-sync interval started by instance i (Call.tsx 45-55)
LipSyncTick(i) ==
  /\ LiveIntervals(i, "lip") > 0
  /\ \E s \in SinSamples, r \in RandomSamples :
       currentMouthOpen' = LipSyncMouthOpen(s, r)
  /\ UNCHANGED <<currentExpression, mountVars, voiceVars, callVars, chatVars, renderVars, emotionVars>>

\* a tick of a blink interval of instance i on which shouldBlink is true
\* (Call.tsx 74-88); a tick on which it is false changes nothing
BlinkTick(i) ==
  /\ LiveIntervals(i, "blink") > 0
  /\ blinkRestores[i] < MaxRestores
  /\ currentExpression' = "blink"
  /\ blinkRestores' = [blinkRestores EXCEPT ![i] = @ + 1]
  /\ UNCHANGED <<call, refs, orphans, conversationRef, sessions, callEnded>>
  /\ UNCHANGED <<currentMouthOpen, mountVars, voiceVars, chatVars, renderVars, emotionVars>>

\* the 150 ms timeout of a blink fires (Call.tsx 81-85): setExpression(currentEmotion).
\* currentEmotion is the value of the render whose startCall made the callbacks;
\* no render of Call ever has a currentEmotion other than 'neutral'
\* (CurrentEmotionIsNeutral).
BlinkRestore(i) ==
  /\ blinkRestores[i] > 0
  /\ currentExpression' = "neutral"
  /\ blinkRestores' = [blinkRestores EXCEPT ![i] = @ - 1]
  /\ UNCHANGED <<call, refs, orphans, conversationRef, sessions, callEnded>>
  /\ UNCHANGED <<currentMouthOpen, mountVars, voiceVars, chatVars, renderVars, emotionVars>>

\* a tick of a head-movement interval (Call.tsx 103-115): the avatar handle has
\* no setHeadPosition (README.md 365-372), so the tick writes nothing
HeadTick(i) ==
  /\ LiveIntervals(i, "head") > 0
  /\ UNCHANGED vars

\* a tick of a call-duration timer (Call.tsx 186-188)
CallTimerTick(i) ==
  /\ LiveIntervals(i, "timer") > 0
  /\ CallMounted(i)
  /\ call.callDuration < MaxDuration
  /\ call' = [call EXCEPT !.callDuration = @ + 1]
  /\ UNCHANGED <<refs, orphans, conversationRef, blinkRestores, sessions, callEnded>>
  /\ UNCHANGED <<mountVars, voiceVars, avatarHandleVars, chatVars, renderVars, emotionVars>>

\* ------------------------------------------------------------------------
\* Properties of the call controller
\* ------------------------------------------------------------------------
\* No render of Call has a currentEmotion other than 'neutral': setCurrentTranscript
\* is only called with '' (Call.tsx 266), so the 'speaking' branch never sets one.
CurrentEmotionIsNeutral ==
  /\ call.currentEmotion = "neutral"
  /\ call.currentTranscript = << >>
  /\ \A s \in SessionIds : sessions[s].emotion = "neutral" /\ sessions[s].transcript = << >>

\* an animation callback scheduled by Call instance i fires in this step
AnimationCallbackFires(i) ==
  LipSyncTick(i) \/ BlinkTick(i) \/ BlinkRestore(i) \/ HeadTick(i)

\* C1: endCall always leaves mouthOpen at 0 and the expression neutral, and once
\* endCall of a Call instance has returned no lip-sync, blink or head-movement
\* interval tick and no blink-restore timeout of that instance fires any more.
C1_EndCallStopsAllAnimation ==
  [][ /\ (callEnded' # callEnded
            => currentMouthOpen' = 0 /\ currentExpression' = "neutral")
      /\ \A i \in callEnded : ~AnimationCallbackFires(i) ]_vars

\* C2: a step in which the session reports onDisconnect or onError leaves the
\* lip-sync, blink and head-movement intervals and the call timer of its Call
\* instance stopped, mouthOpen at 0, the expression neutral, the session released
\* and the status disconnected or error.
SessionEndReported(s) == OnDisconnect(s) \/ OnError(s)

C2_DisconnectOrErrorUnwinds ==
  [][ \A s \in SessionIds :
        SessionEndReported(s) =>
          LET i == sessions[s].owner
          IN /\ \A k \in Kinds : orphans'[i][k] = 0 /\ refs'[i][k] # "live"
             /\ currentMouthOpen' = 0
             /\ currentExpression' = "neutral"
             /\ conversationRef'[i] = 0
             /\ call'.agentStatus \in {"disconnected", "error"} ]_vars

\* C24: a Call instance never has two call-duration timers running, and has
\* one running only while it is mounted with a connected call.
C24_ExactlyOneCallTimer ==
  \A i \in CallIds :
    /\ LiveIntervals(i, "timer") <= 1
    /\ LiveIntervals(i, "timer") = 1
         => (CallMounted(i) /\ call.isInCall /\ i \notin callEnded)

\* the startCall invocations that are over: the session start failed, the
\* session was closed, or endCall of the Call instance has returned
CallExited(s) ==
  \/ sessions[s].st \in {"failed", "closed"}
  \/ (sessions[s].st # "unused" /\ sessions[s].owner \in callEnded)

\* C23: no microphone stream acquired by a startCall invocation is still held
\* once the invocation is over (endCall, onDisconnect, or a failed session start).
C23_MicReleasedOnEveryExit ==
  \A s \in SessionIds : CallExited(s) => ~sessions[s].micHeld

\* the remote sessions that are open
OpenSessions == {s \in SessionIds : SessionLive(s)}

\* C22: at most one remote session is open at any time, and no session of a
\* Call instance whose endCall has returned is open.
C22_AtMostOneSessionNoneAfterEndCall ==
  /\ Cardinality(OpenSessions) <= 1
  /\ \A s \in OpenSessions : sessions[s].owner \notin callEnded

\* C21: the sub-modes exist only inside Connected: while the mounted Call has
\* isListening or isProcessing true its status is connected and isInCall is
\* true, and a lip-sync interval of it runs only while isProcessing (speaking)
\* is true.
C21_SubModesOnlyWhileConnected ==
  /\ (call.isListening \/ call.isProcessing)
       => (call.agentStatus = "connected" /\ call.isInCall)
  /\ \A i \in CallIds :
       (CallMounted(i) /\ LiveIntervals(i, "lip") > 0) => call.isProcessing

\* C20: a 'speaking' mode event of a live session of the mounted Call leaves
\* the lip-sync interval of its instance running and, when the user has said
\* something in the session, the expression at analyzeEmotion of what the user
\* said last.
C20_SpeakingStartsLipSyncAndEmotion ==
  [][ \A s \in SessionIds :
        (CallMounted(sessions[s].owner) /\ OnModeChange(s, "speaking")) =>
          /\ refs'[sessions[s].owner]["lip"] = "live"
          /\ sessions[s].heard # << >>
               => currentExpression' = analyzeEmotion(sessions[s].heard) ]_vars

\* C19: a 'listening' mode event of a live session leaves no lip-sync interval
\* of its Call instance running, mouthOpen at 0, the expression neutral, and
\* exactly one blink interval and exactly one head-movement interval running.
C19_ListeningStopsLipSyncKeepsIdle ==
  [][ \A s \in SessionIds :
        OnModeChange(s, "listening") =>
          LET i == sessions[s].owner
          IN /\ LiveIntervals(i, "lip")' = 0
             /\ refs'[i]["lip"] = "null"
             /\ currentMouthOpen' = 0
             /\ currentExpression' = "neutral"
             /\ LiveIntervals(i, "blink")' = 1
             /\ LiveIntervals(i, "head")' = 1 ]_vars

\* the mounted Call is listening after a 'listening' event: the lip-sync ref is
\* null and the blink and head-movement intervals run
C19_Witness ==
  /\ appIsInCall
  /\ call.isInCall
  /\ call.isListening
  /\ ~call.isProcessing
  /\ LiveIntervals(callInst, "lip") = 0
  /\ LiveIntervals(callInst, "blink") = 1
  /\ LiveIntervals(callInst, "head") = 1
  /\ currentMouthOpen = 0
  /\ currentExpression = "neutral"

\* C18: a mode-change event of a session whose Call instance has run endCall
\* starts and stops no interval, writes neither mouthOpen nor the expression
\* and leaves the Call state (isListening, isProcessing) as it is.
C18_ModeChangeAfterEndCallIgnored ==
  [][ \A s \in SessionIds, mode \in {"speaking", "listening"} :
        (sessions[s].owner \in callEnded /\ OnModeChange(s, mode)) =>
          /\ refs' = refs
          /\ orphans' = orphans
          /\ currentMouthOpen' = currentMouthOpen
          /\ currentExpression' = currentExpression
          /\ call' = call ]_vars

\* C13: once a Call instance has unmounted none of its lip-sync, blink,
\* head-movement and timer intervals is running and none of its sessions is
\* still connected.
WasUnmounted(i) == i <= callInst /\ ~CallMounted(i)

C13_UnmountedCallIsQuiet ==
  \A i \in CallIds :
    WasUnmounted(i) =>
      /\ \A k \in Kinds : LiveIntervals(i, k) = 0
      /\ \A s \in SessionIds : sessions[s].owner = i => ~SessionLive(s)

\* C4: no lip-sync interval ever runs that the ref of its Call instance does not
\* hold, so at most one runs per instance, and a 'speaking' mode event leaves
\* exactly one running, the one it started: the interval of an earlier start
\* was cleared and none of its ticks can follow.
C4_SecondStartCancelsFirst ==
  [][ /\ \A i \in CallIds : orphans'[i]["lip"] = 0 /\ LiveIntervals(i, "lip")' <= 1
      /\ \A s \in SessionIds :
           OnModeChange(s, "speaking") =>
             /\ refs'[sessions[s].owner]["lip"] = "live"
             /\ LiveIntervals(sessions[s].owner, "lip")' = 1 ]_vars

\* two 'speaking' events in a row have reached a call and its lip-sync runs
C4_Witness ==
  \E s \in SessionIds :
    /\ sessions[s].st \in {"connected", "open"}
    /\ sessions[s].speakingRun = 2
    /\ LiveIntervals(sessions[s].owner, "lip") = 1

\* the sessions started by Call instance i other than s
OtherSessions(i, s) ==
  {q \in SessionIds : q # s /\ sessions[q].st # "unused" /\ sessions[q].owner = i}

OnAudioPlayFrame_NoClamp(volume) == volume
OnAudioPlayFrame(volume) == Max(0, Min(100, volume))

\* fakeVolume = 0.5 + 0.5 * Math.abs(Math.sin(t * 8)), Voice.tsx 78-79
FakeVolume(s) == 50 + ((50 * Abs(s)) \div 100)

\* HTMLMediaElement.paused
Paused(sp, a) == sp[a].st \in {"paused", "ended"}

\* the condition of animateLipSync, Voice.tsx 76: it reads the Audio element the
\* ref holds now, which need not be the one the loop was started for
LipSyncCondition(sp, ref, v) ==
  /\ ref[v] # 0
  /\ ~Paused(sp, ref[v])
  /\ onAudioPlayFrameRef[v]

\* a React set-state of Voice instance v reaches the state only while v is mounted
VoiceAfter(v, x) == IF VoiceMounted(v) THEN x ELSE voice

FreeSpeak(r) ==
  /\ speaks[r].st = "unused"
  /\ \A q \in SpeakIds : q < r => speaks[q].st # "unused"

\* audio.pause() on the element the ref holds, with the 'pause' event it causes
\* (onpause, Voice.tsx 87-90): the element's frame request is cancelled
pauseAudio(sp, a) ==
  IF a # 0 /\ sp[a].st = "playing"
  THEN [sp EXCEPT ![a].st = "paused", ![a].raf = FALSE]
  ELSE sp

\* the audioElement of useVoice (part_002 90): a local of the hook, null at every
\* render, that only useVoice.speak assigns; the handle's speak is
\* speakWithLipSync (Voice.tsx 114-118) and nothing calls useVoice.speak
useVoiceAudioElement == FALSE

\* the speech state a stopSpeaking call acts on
SpeechState == [speaks |-> speaks, isSpeaking |-> voice.isSpeaking, mouthOpen |-> currentMouthOpen]

\* useVoice.stopSpeaking (part_002 133-139), the stopSpeaking of the Voice handle
\* (Voice.tsx 114-118): under the guard on its own audioElement it pauses that
\* element and sets isSpeaking to false
stopSpeaking(S) ==
  IF useVoiceAudioElement THEN [S EXCEPT !.isSpeaking = FALSE] ELSE S

\* speakWithLipSync up to its first await, Voice.tsx 41-66
speakWithLipSync(r) ==
  LET v == voiceInst
      a == audioElementRef[v]
      wasPlaying == a # 0 /\ speaks[a].st = "playing"
      sp == pauseAudio(stopSpeaking(SpeechState).speaks, a)
  IN IF ~voice.enabled
     THEN UNCHANGED <<voice, audioElementRef, speaks, currentMouthOpen>>
     ELSE /\ speaks' = [sp EXCEPT ![r] = [st |-> "fetching", owner |-> v, raf |-> FALSE]]
          /\ audioElementRef' = [audioElementRef EXCEPT ![v] = 0]
          /\ voice' = [voice EXCEPT !.isSpeaking = TRUE]
          /\ currentMouthOpen' = IF wasPlaying /\ onAudioPlayFrameRef[v]
                                 THEN OnAudioPlayFrame(0) ELSE currentMouthOpen

\* the fetch resolves with audio: Voice.tsx 67-96.  play() fires onplay, which
\* runs animateLipSync once
FetchOk(r) ==
  LET v == speaks[r].owner
      ref == [audioElementRef EXCEPT ![v] = r]
      sp == [speaks EXCEPT ![r].st = "playing"]
      go == LipSyncCondition(sp, ref, v)
  IN /\ speaks[r].st = "fetching"
     /\ audioElementRef' = ref
     /\ speaks' = [sp EXCEPT ![r].raf = go]
     /\ IF go
        THEN \E s \in SinSamples : currentMouthOpen' = OnAudioPlayFrame(FakeVolume(s))
        ELSE currentMouthOpen' = currentMouthOpen
     /\ UNCHANGED <<voice, onAudioPlayFrameRef, currentExpression>>
     /\ UNCHANGED <<mountVars, callVars, chatVars, renderVars, emotionVars>>

\* the fetch fails or the response is not ok: the catch block, Voice.tsx 97-100
FetchFail(r) ==
  /\ speaks[r].st = "fetching"
  /\ speaks' = [speaks EXCEPT ![r].st = "failed"]
  /\ voice' = VoiceAfter(speaks[r].owner, [voice EXCEPT !.isSpeaking = FALSE])
  /\ UNCHANGED <<audioElementRef, onAudioPlayFrameRef>>
  /\ UNCHANGED <<mountVars, callVars, chatVars, avatarHandleVars, renderVars, emotionVars>>

\* the animation frame requested by animateLipSync runs it again, Voice.tsx 75-83
LipSyncFrame(r) ==
  LET v == speaks[r].owner
      go == LipSyncCondition(speaks, audioElementRef, v)
  IN /\ speaks[r].raf
     /\ speaks' = [speaks EXCEPT ![r].raf = go]
     /\ IF go
        THEN \E s \in SinSamples : currentMouthOpen' = OnAudioPlayFrame(FakeVolume(s))
        ELSE currentMouthOpen' = currentMouthOpen
     /\ UNCHANGED <<voice, audioElementRef, onAudioPlayFrameRef, currentExpression>>
     /\ UNCHANGED <<mountVars, callVars, chatVars, renderVars, emotionVars>>

\* playback reaches the end: the element is paused and fires 'pause' and 'ended'
\* (onpause and the second onended, Voice.tsx 87-95)
AudioEnded(r) ==
  LET v == speaks[r].owner
  IN /\ speaks[r].st = "playing"
     /\ speaks' = [speaks EXCEPT ![r].st = "ended", ![r].raf = FALSE]
     /\ voice' = VoiceAfter(v, [voice EXCEPT !.isSpeaking = FALSE])
     /\ currentMouthOpen' = IF onAudioPlayFrameRef[v]
                            THEN OnAudioPlayFrame(0) ELSE currentMouthOpen
     /\ UNCHANGED <<audioElementRef, onAudioPlayFrameRef, currentExpression>>
     /\ UNCHANGED <<mountVars, callVars, chatVars, renderVars, emotionVars>>

\* playback fails: onerror, Voice.tsx 72.  The element is not paused by an error.
AudioError(r) ==
  /\ speaks[r].st = "playing"
  /\ speaks' = [speaks EXCEPT ![r].st = "error"]
  /\ voice' = VoiceAfter(speaks[r].owner, [voice EXCEPT !.isSpeaking = FALSE])
  /\ UNCHANGED <<audioElementRef, onAudioPlayFrameRef>>
  /\ UNCHANGED <<mountVars, callVars, chatVars, avatarHandleVars, renderVars, emotionVars>>

\* the "Stop" button, Voice.tsx 217-224, rendered while isSpeaking: its onClick
\* is useVoice.stopSpeaking
StopButton ==
  /\ ~appIsInCall
  /\ voice.isSpeaking
  /\ speaks' = stopSpeaking(SpeechState).speaks
  /\ voice' = [voice EXCEPT !.isSpeaking = stopSpeaking(SpeechState).isSpeaking]
  /\ currentMouthOpen' = stopSpeaking(SpeechState).mouthOpen
  /\ UNCHANGED <<audioElementRef, onAudioPlayFrameRef, currentExpression>>
  /\ UNCHANGED <<mountVars, callVars, chatVars, renderVars, emotionVars>>

\* the voice on/off button, Voice.tsx 135: updateSettings({enabled: !settings.enabled})
ToggleVoiceEnabled ==
  /\ ~appIsInCall
  /\ voice' = [voice EXCEPT !.enabled = ~@]
  /\ UNCHANGED <<audioElementRef, onAudioPlayFrameRef, speaks>>
  /\ UNCHANGED <<mountVars, callVars, chatVars, avatarHandleVars, renderVars, emotionVars>>

\* what speech recognition can hear
Transcripts == {"tell me a story"}

\* the Talk button, useVoice.startListening (part_002 74-80)
StartListening ==
  /\ ~appIsInCall
  /\ ~voice.isListening
  /\ voice' = [voice EXCEPT !.isListening = TRUE, !.transcript = "", !.submitted = 0]
  /\ UNCHANGED <<audioElementRef, onAudioPlayFrameRef, speaks>>
  /\ UNCHANGED <<mountVars, callVars, chatVars, avatarHandleVars, renderVars, emotionVars>>

\* recognition.onresult (part_002 36-40)
RecognitionResult(heard) ==
  /\ ~appIsInCall
  /\ voice.isListening
  /\ voice' = [voice EXCEPT !.isListening = FALSE, !.transcript = heard, !.submitted = 0]
  /\ UNCHANGED <<audioElementRef, onAudioPlayFrameRef, speaks>>
  /\ UNCHANGED <<mountVars, callVars, chatVars, avatarHandleVars, renderVars, emotionVars>>

\* ------------------------------------------------------------------------
\* Properties of the mouth-open samplers
\* ------------------------------------------------------------------------
\* the frame loops of Voice that are running and write mouthOpen when they run
LiveFrameLoops ==
  {r \in SpeakIds : speaks[r].raf /\ onAudioPlayFrameRef[speaks[r].owner]}

RECURSIVE SumLipIntervals(_)
SumLipIntervals(I) ==
  IF I = {} THEN 0
  ELSE LET i == CHOOSE x \in I : TRUE
       IN LiveIntervals(i, "lip") + SumLipIntervals(I \ {i})

\* the mouth-open samplers that are active
MouthSamplers == SumLipIntervals(CallIds) + Cardinality(LiveFrameLoops)

\* C3: at most one mouth-open sampler is active, counting the running lip-sync
\* intervals of Call and the running frame loops of Voice that write mouthOpen.
C3_AtMostOneMouthSampler == MouthSamplers <= 1

\* the TTS audio elements that are playing
PlayingAudio == {r \in SpeakIds : speaks[r].st = "playing"}

\* C29: whenever TTS audio of the mounted Voice instance is playing, that
\* instance has the lip-sync frame callback registered.
C29_CallbackRegisteredWhilePlaying ==
  \A r \in PlayingAudio :
    VoiceMounted(speaks[r].owner) => onAudioPlayFrameRef[speaks[r].owner]

\* C16: a later speak supersedes the earlier ones: at most one TTS audio is
\* playing, and it is the audio of the latest speak that was started; an earlier
\* speak has no frame loop running.
LatestSpeak == Max(0, CHOOSE r \in SpeakIds \cup {0} :
                        /\ r # 0 => speaks[r].st # "unused"
                        /\ \A q \in SpeakIds : speaks[q].st # "unused" => q <= r)

C16_LaterSpeakSupersedes ==
  /\ Cardinality(PlayingAudio) <= 1
  /\ \A r \in SpeakIds : (speaks[r].st = "playing" \/ speaks[r].raf) => r = LatestSpeak

\* C15: in every state where the Voice panel is mounted and a TTS audio is
\* playing, a call of the handle's stopSpeaking leaves no TTS audio playing,
\* isSpeaking false and mouthOpen 0.
C15_StopSpeakingHaltsPlayback ==
  (~appIsInCall /\ PlayingAudio # {}) =>
    LET S == stopSpeaking(SpeechState)
    IN /\ \A r \in SpeakIds : S.speaks[r].st # "playing"
       /\ ~S.isSpeaking
       /\ S.mouthOpen = 0

\* C14: once the playback of a TTS audio has ended or failed its frame loop is
\* cancelled, and whenever no TTS audio is playing and the mounted Voice has a
\* frame callback registered, mouthOpen is 0.
C14_MouthClosedWithoutAudio ==
  /\ \A r \in SpeakIds : speaks[r].st \in {"ended", "error"} => ~speaks[r].raf
  /\ (PlayingAudio = {} /\ onAudioPlayFrameRef[voiceInst]) => currentMouthOpen = 0

\* ------------------------------------------------------------------------
\* App: the chat pipeline (part_001 205-346) and Chat (part_001 12-53)
\* ------------------------------------------------------------------------
\* what the user can have in the input box, and the quick-action texts
InputValues == {"", " ", " hi "}
QuickMessages == {"I love you!"}
\* what detectEmotion (part_003 281-301) can make of a remote reply's text
ReplyEmotions == {"joy", "love"}

\* String.prototype.trim
trim(text) ==
  CASE text = " " -> ""
    [] text = " hi " -> "hi"
    [] OTHER -> text

\* usePersonality.getExpressionFromEmotion, usePersonality.ts 29-39
getExpressionFromEmotion(emotion) ==
  CASE emotion = "joy" -> "happy"
    [] emotion = "sadness" -> "sad"
    [] emotion = "surprise" -> "surprised"
    [] emotion = "excitement" -> "excited"
    [] emotion = "love" -> "blushing"
    [] emotion = "confusion" -> "neutral"
    [] OTHER -> "neutral"

\* useState initial value of messages, part_001 207-215
InitialMessages ==
  << [sender |-> "ai", req |-> 0, text |-> "initial", emotion |-> "joy", note |-> FALSE] >>

\* setMessages(prev => [...prev, message]), part_001 250, 281, 299, 321
appendMessage_Prepend(log, message) == <<message>> \o log
appendMessage(log, message) == Append(log, message)

FreeRequest(q) ==
  /\ requests[q].st = "unused"
  /\ \A p \in SendIds : p < q => requests[p].st # "unused"

\* the guard of handleSendMessage, part_001 270; isProcessing is the value of the
\* render that made the callback, which is the current state (useCallback lists
\* isProcessing among its dependencies)
Accepted_NoGuard(text) == trim(text) # ""
Accepted(text) == ~(isProcessing \/ trim(text) = "")

\* the finally block of handleSendMessage, part_001 323-325: setIsProcessing(false)
handleSendFinally_Missing(processing) == processing
handleSendFinally(processing) == FALSE

\* handleSendMessage up to its first await, part_001 269-286
handleSendMessage(text) ==
  IF Accepted(text)
  THEN \E q \in SendIds :
         /\ FreeRequest(q)
         /\ requests' = [requests EXCEPT ![q] = [st |-> "pending", text |-> text, remote |-> "none"]]
         /\ isProcessing' = TRUE
         /\ messages' = appendMessage(messages,
              [sender |-> "user", req |-> q, text |-> trim(text), emotion |-> "none", note |-> FALSE])
         /\ isTyping' = TRUE
  ELSE UNCHANGED <<requests, isProcessing, messages, isTyping>>

\* Chat.handleSend, part_001 24-32; the send button and the textarea are
\* disabled while isTyping (part_001 175, 181)
TypedSend(input) ==
  /\ ~isTyping
  /\ trim(input) # ""
  /\ handleSendMessage(trim(input))
  /\ UNCHANGED <<greetingPending, mountVars, callVars, voiceVars, avatarHandleVars, renderVars, emotionVars>>

\* Chat.handleQuickMessage, part_001 51-53
QuickSend(text) ==
  /\ handleSendMessage(text)
  /\ UNCHANGED <<greetingPending, mountVars, callVars, voiceVars, avatarHandleVars, renderVars, emotionVars>>

\* the transcript effect of Voice (Voice.tsx 108-112) calls handleVoiceTranscript
\* (part_001 328-332).  It runs after every render of Voice whose transcript or
\* onTranscript differs from the last; App makes a new handleVoiceTranscript in
\* every render (generateResponse of usePersonality is a new function in every
\* render), so it can run again whenever App has rendered.
TranscriptEffect ==
  /\ ~appIsInCall
  /\ voice.transcript # ""
  /\ IF trim(voice.transcript) # "" /\ ~isProcessing
     THEN /\ handleSendMessage(voice.transcript)
          /\ voice' = [voice EXCEPT !.submitted = Min(2, @ + 1)]
     ELSE UNCHANGED <<requests, isProcessing, messages, isTyping, voice>>
  /\ UNCHANGED <<audioElementRef, onAudioPlayFrameRef, speaks>>
  /\ UNCHANGED <<greetingPending, mountVars, callVars, avatarHandleVars, renderVars, emotionVars>>

\* ------------------------------------------------------------------------
\* AIService (part_003) and usePersonality.generateResponse
\* ------------------------------------------------------------------------
\* what can come of the remote call: a reply, a reply whose first part has no
\* text, no API key configured, fetch rejecting, a status that is not OK, a
\* body that is not JSON, a body without candidates, a candidate without parts
RemoteOutcomes ==
  {"ok", "emptyText", "noKey", "networkError", "status429", "status400", "status401",
   "status500", "badJson", "noCandidates", "noParts"}

Return(text, emotion) == [threw |-> FALSE, text |-> text, emotion |-> emotion]
Throw(error) == [threw |-> TRUE, text |-> error, emotion |-> "none"]

\* AIService.generateGeminiResponse, part_003 145-244; emotion is what
\* detectEmotion makes of the reply's text
generateGeminiResponse(outcome, emotion) ==
  IF outcome = "noKey" THEN Throw("Google Gemini API key not configured")
  ELSE IF outcome = "networkError" THEN Throw("fetch failed")
  ELSE IF outcome = "status429" THEN Throw("Gemini API quota exceeded")
  ELSE IF outcome = "status400" THEN Throw("Invalid Gemini API key or request")
  ELSE IF outcome \in {"status401", "status500"} THEN Throw("Gemini API error: status")
  ELSE IF outcome = "badJson" THEN Throw("SyntaxError")
  ELSE IF outcome = "noCandidates" THEN Throw("Invalid response from Gemini API")
  ELSE IF outcome = "noParts" THEN Throw("TypeError")
  ELSE IF outcome = "emptyText" THEN Return("I'm having trouble thinking right now...", "joy")
  ELSE Return("remote reply", emotion)

\* the keywords of generateLocalResponse (part_003 262-276) that occur in the
\* lower-cased message
LocalKeywords(userMessage) ==
  CASE userMessage = "I love you!" -> {"love"}
    [] userMessage = "hi" -> {"hi"}
    [] OTHER -> {}

\* the responses array of generateLocalResponse, part_003 251-259
LocalResponses ==
  << [text |-> "That's really interesting!", emotion |-> "joy"],
     [text |-> "I love talking with you!", emotion |-> "joy"],
     [text |-> "Hmm, that's something to think about!", emotion |-> "confusion"],
     [text |-> "You always know how to make me smile!", emotion |-> "love"],
     [text |-> "I'm so lucky to have you as my friend!", emotion |-> "joy"],
     [text |-> "Really? That sounds amazing!", emotion |-> "excitement"],
     [text |-> "I find that so fascinating!", emotion |-> "joy"] >>

\* samples of Math.floor(Math.random() * responses.length) + 1
LocalRandomSamples == {1, 3, 6}

\* AIService.generateLocalResponse, part_003 247-279
generateLocalResponse(userMessage, r) ==
  LET kw == LocalKeywords(userMessage)
  IN IF "love" \in kw \/ "like you" \in kw
     THEN Return("Aww, I love you too!", "love")
     ELSE IF "sad" \in kw \/ "upset" \in kw
     THEN Return("Oh no, what's wrong?", "sadness")
     ELSE IF "happy" \in kw \/ "excited" \in kw
     THEN Return("Yay! Your happiness makes me happy too!", "joy")
     ELSE IF "hello" \in kw \/ "hi" \in kw
     THEN Return("Hello! I'm so happy to see you!", "joy")
     ELSE Return(LocalResponses[r].text, LocalResponses[r].emotion)

\* usePersonality.generateResponse, usePersonality.ts 75-94, with the default
\* service (provider gemini, part_003 304-308): what the promise settles with
generateResponse_Rethrow(userMessage, outcome, emotion, r) ==
  LET response == generateGeminiResponse(outcome, emotion)
  IN [rejected |-> response.threw, text |-> response.text,
      emotion |-> response.emotion, note |-> FALSE]

generateResponse(userMessage, outcome, emotion, r) ==
  LET response == generateGeminiResponse(outcome, emotion)
      fallbackResponse == generateLocalResponse(userMessage, r)
  IN IF ~response.threw
     THEN [rejected |-> FALSE, text |-> response.text,
           emotion |-> response.emotion, note |-> FALSE]
     ELSE [rejected |-> FALSE, text |-> fallbackResponse.text,
           emotion |-> fallbackResponse.emotion, note |-> TRUE]

\* handleSendMessage after generateResponse has settled: the rest of the try
\* block (part_001 288-309) when it resolved, the catch block (310-322) when it
\* rejected, and the finally block (323-325)
ReplyArrives(q, outcome, emotion, r) ==
  LET response == generateResponse(requests[q].text, outcome, emotion, r)
      remote == IF generateGeminiResponse(outcome, emotion).threw THEN "threw" ELSE "returned"
      \* part_001 302: computed, and passed to nothing
      newExpression == getExpressionFromEmotion(response.emotion)
  IN /\ requests[q].st = "pending"
     /\ requests' = [requests EXCEPT ![q].st = "done", ![q].remote = remote]
     /\ isTyping' = FALSE
     /\ isProcessing' = handleSendFinally(isProcessing)
     /\ IF response.rejected
        THEN /\ messages' = appendMessage(messages,
                  [sender |-> "ai", req |-> q, text |-> "error", emotion |-> "confusion",
                   note |-> FALSE])
             /\ UNCHANGED <<voice, audioElementRef, speaks, currentMouthOpen>>
        ELSE /\ messages' = appendMessage(messages,
                  [sender |-> "ai", req |-> q, text |-> response.text,
                   emotion |-> response.emotion, note |-> response.note])
             /\ IF ~appIsInCall
                THEN \E sp \in SpeakIds : FreeSpeak(sp) /\ speakWithLipSync(sp)
                ELSE UNCHANGED <<voice, audioElementRef, speaks, currentMouthOpen>>
     /\ UNCHANGED <<greetingPending, onAudioPlayFrameRef, currentExpression>>
     /\ UNCHANGED <<mountVars, callVars, renderVars, emotionVars>>

\* the greeting timer fires, part_001 242-251
GreetingTimer ==
  /\ greetingPending
  /\ greetingPending' = FALSE
  /\ messages' = appendMessage(messages,
       [sender |-> "ai", req |-> 0, text |-> "greeting", emotion |-> "joy", note |-> FALSE])
  /\ UNCHANGED <<isProcessing, isTyping, requests>>
  /\ UNCHANGED <<mountVars, callVars, voiceVars, avatarHandleVars, renderVars, emotionVars>>

\* ------------------------------------------------------------------------
\* Properties of the chat pipeline
\* ------------------------------------------------------------------------
PendingRequests == {q \in SendIds : requests[q].st = "pending"}

\* the positions of the log that hold a message of sender x for request q
MessagesOf(x, q) ==
  {k \in 1..Len(messages) : messages[k].sender = x /\ messages[k].req = q}

\* the request of the last user message before position k (0: none)
LastAcceptedBefore(k) ==
  LET U == {j \in 1..(k - 1) : messages[j].sender = "user"}
  IN IF U = {} THEN 0 ELSE messages[CHOOSE j \in U : \A i \in U : i <= j].req

\* C7: at most one request is in flight, and every AI reply in the log answers
\* the user message accepted last before it: no reply of an older request
\* arrives after a newer request has been accepted.
C7_RepliesAnswerLatestRequest ==
  /\ Cardinality(PendingRequests) <= 1
  /\ \A k \in 1..Len(messages) :
       (messages[k].sender = "ai" /\ messages[k].req # 0)
         => messages[k].req = LastAcceptedBefore(k)

\* two requests were accepted and answered, one after the other
C7_Witness ==
  /\ \A q \in 1..2 : requests[q].st = "done" /\ MessagesOf("ai", q) # {}
  /\ Len(messages) >= 5

IsPrefix(a, b) == Len(a) <= Len(b) /\ SubSeq(b, 1, Len(a)) = a

\* C8: the log only grows at its end, and every accepted request has exactly one
\* user message in it, followed, once the request is finished, by exactly one AI
\* message; a request that was not accepted has none.
C8_OneUserThenOneAi ==
  [][ /\ IsPrefix(messages, messages')
      /\ Len(messages') <= Len(messages) + 1
      /\ \A q \in SendIds :
           LET u == {k \in 1..Len(messages') :
                       messages'[k].sender = "user" /\ messages'[k].req = q}
               a == {k \in 1..Len(messages') :
                       messages'[k].sender = "ai" /\ messages'[k].req = q}
           IN CASE requests'[q].st = "unused" -> u = {} /\ a = {}
                [] requests'[q].st = "pending" -> Cardinality(u) = 1 /\ a = {}
                [] requests'[q].st = "done" ->
                     /\ Cardinality(u) = 1 /\ Cardinality(a) = 1
                     /\ \A i \in u, j \in a : i < j ]_vars

\* the greeting timer fired while a request was in flight and the reply followed
C8_Witness ==
  \E q \in SendIds :
    /\ requests[q].st = "done"
    /\ \E i \in MessagesOf("user", q), g \in MessagesOf("ai", 0), j \in MessagesOf("ai", q) :
         i < g /\ g < j /\ messages[g].text = "greeting"

\* the ways the remote call can fail: no API key, 429, 401 / 400, another status
\* that is not OK, a malformed body, a network error
RemoteFailures ==
  {"noKey", "status429", "status401", "status400", "status500", "badJson",
   "noCandidates", "noParts", "networkError"}

UserMessages == QuickMessages \cup Transcripts \cup {trim(input) : input \in InputValues}

\* C17: a step that appends the AI reply to a request leaves the avatar's target
\* expression at getExpressionFromEmotion of the reply's emotion.
C17_ReplySetsExpression ==
  [][ \A q \in SendIds :
        (/\ MessagesOf("ai", q) = {}
         /\ Len(messages') = Len(messages) + 1
         /\ messages'[Len(messages')].sender = "ai"
         /\ messages'[Len(messages')].req = q)
        => currentExpression' = getExpressionFromEmotion(messages'[Len(messages')].emotion) ]_vars

\* C27: the transcript of one speech-recognition result is passed to
\* handleSendMessage, and accepted, at most once.
C27_TranscriptSubmittedAtMostOnce == voice.submitted <= 1

\* C30: at most one send is in flight and isProcessing is true exactly while it
\* is; when no send is in flight isTyping and isProcessing are both false; and
\* the send in flight is eventually finished, with isTyping and isProcessing
\* false, given that its text-generation call settles.
C30_SendTerminatesTyping ==
  /\ [](Cardinality(PendingRequests) <= 1)
  /\ [](isProcessing <=> PendingRequests # {})
  /\ [](PendingRequests = {} => (~isTyping /\ ~isProcessing))
  /\ (PendingRequests # {}) ~> (PendingRequests = {} /\ ~isTyping /\ ~isProcessing)

\* every send that was accepted has finished, one of them by the fallback, and
\* the typing state is over
C30_Witness ==
  /\ \A q \in SendIds : requests[q].st = "done"
  /\ \E q \in SendIds : requests[q].remote = "threw"
  /\ ~isTyping
  /\ ~isProcessing

\* C26: the local generator is deterministic: two requests with the same text
\* that were both answered by it got the same text and the same emotion.
C26_LocalGeneratorDeterministic ==
  \A q1 \in SendIds, q2 \in SendIds :
    (/\ requests[q1].remote = "threw" /\ requests[q2].remote = "threw"
     /\ requests[q1].text = requests[q2].text)
    => \A k1 \in MessagesOf("ai", q1), k2 \in MessagesOf("ai", q2) :
         /\ messages[k1].text = messages[k2].text
         /\ messages[k1].emotion = messages[k2].emotion

\* generateResponse on every failure of the remote call: it resolves, with the
\* reply of the local generator and the note
FallsBackToLocal ==
  \A o \in RemoteFailures, e \in ReplyEmotions, m \in UserMessages, r \in LocalRandomSamples :
    LET g == generateResponse(m, o, e, r)
    IN /\ ~g.rejected
       /\ g.note
       /\ g.text = generateLocalResponse(m, r).text
       /\ g.emotion = generateLocalResponse(m, r).emotion

\* C11: for every way the remote call can fail, generateResponse does not reject
\* and resolves with the reply of the local generator carrying the note; and
\* every request whose remote call threw ends with exactly one AI message in the
\* log, the local reply with the note, not the error message.
C11_RemoteFailureFallsBackToLocal ==
  /\ FallsBackToLocal
  /\ \A q \in SendIds :
       requests[q].remote = "threw" =>
         /\ requests[q].st = "done"
         /\ Cardinality(MessagesOf("ai", q)) = 1
         /\ \A k \in MessagesOf("ai", q) :
              /\ messages[k].note
              /\ \E r \in LocalRandomSamples :
                   /\ messages[k].text = generateLocalResponse(requests[q].text, r).text
                   /\ messages[k].emotion = generateLocalResponse(requests[q].text, r).emotion

\* the remote call of a request without a local keyword threw and the local
\* reply with the note is in the log
C11_Witness ==
  \E q \in SendIds :
    /\ requests[q].remote = "threw"
    /\ LocalKeywords(requests[q].text) = {}
    /\ \E k \in MessagesOf("ai", q) : messages[k].note /\ messages[k].emotion = "excitement"

\* ------------------------------------------------------------------------
\* AnimeAvatar (README.md 236-372)
\* ------------------------------------------------------------------------
\* one render tick is 1/60 s
Tick == 10
\* blinkDuration = 0.1 s
BlinkDuration == 60

\* 1.5 + Math.random() * 2.5 seconds, r in thousandths (README.md 259, 334)
NextBlinkDelay_Short(r) == 300 + ((r * 1500) \div 1000)
NextBlinkDelay(r) == 900 + ((r * 1500) \div 1000)

\* samples of Math.random(), in thousandths
BlinkRandomSamples == {0, 999}

\* the expressions the callers of the handle pass: 'blink' and the restored or
\* reset emotion (Call.tsx 80, 83, 151, 259); "love" stands for an emotion label
AvatarExpressions == {"neutral", "blink", "love"}
ShapeNames == {"blink", "aa"} \cup AvatarExpressions

AvatarUnchangedByRender == UNCHANGED <<mountVars, callVars, voiceVars, chatVars, emotionVars>>

\* the loader's success callback, README.md 290-300
VrmLoaded ==
  /\ vrm = "loading"
  /\ vrm' = "loaded"
  /\ avatarError' = "none"
  /\ UNCHANGED <<loop, blinkTimer, isBlinking, nextBlink, blendShape, idleBlink, blinkRun,
                 lastGap, lastClosed>>
  /\ UNCHANGED avatarHandleVars
  /\ AvatarUnchangedByRender

\* the loader's success callback throws (no VRM in the file), README.md 291-299:
\* vrmRef.current is not assigned
VrmParseFailed ==
  /\ vrm = "loading"
  /\ vrm' = "failed"
  /\ avatarError' = "Failed to parse VRM model."
  /\ UNCHANGED <<loop, blinkTimer, isBlinking, nextBlink, blendShape, idleBlink, blinkRun,
                 lastGap, lastClosed>>
  /\ UNCHANGED avatarHandleVars
  /\ AvatarUnchangedByRender

\* the loader's error callback, README.md 302-305
VrmLoadFailed_NoBanner ==
  /\ vrm = "loading"
  /\ vrm' = "failed"
  /\ UNCHANGED <<avatarError, loop, blinkTimer, isBlinking, nextBlink, blendShape, idleBlink,
                 blinkRun, lastGap, lastClosed>>
  /\ UNCHANGED avatarHandleVars
  /\ AvatarUnchangedByRender

VrmLoadFailed ==
  /\ vrm = "loading"
  /\ vrm' = "failed"
  /\ avatarError' = "Failed to load VRM model."
  /\ UNCHANGED <<loop, blinkTimer, isBlinking, nextBlink, blendShape, idleBlink, blinkRun,
                 lastGap, lastClosed>>
  /\ UNCHANGED avatarHandleVars
  /\ AvatarUnchangedByRender

\* the blinking logic of one tick, README.md 325-344: the timer, flag and delay
\* after the tick and the weight it leaves on 'blink'
BlinkStep(timer, blinking, delay, r) ==
  LET t1 == timer + Tick
  IN IF blinking
     THEN IF t1 > BlinkDuration
          THEN [timer |-> 0, blinking |-> FALSE, delay |-> NextBlinkDelay(r), weight |-> 0]
          ELSE [timer |-> t1, blinking |-> TRUE, delay |-> delay, weight |-> 100]
     ELSE IF t1 > delay
          THEN [timer |-> 0, blinking |-> TRUE, delay |-> delay, weight |-> 0]
          ELSE [timer |-> t1, blinking |-> FALSE, delay |-> delay, weight |-> 0]

\* exp.setValue('aa', currentMouthOpen.current); exp.setValue(currentExpression.current, 1.0)
\* README.md 346-350, after the blinking logic has set 'blink'
ApplyShapes(shape, blinkWeight) ==
  [[[shape EXCEPT !["blink"] = blinkWeight]
           EXCEPT !["aa"] = currentMouthOpen]
           EXCEPT ![currentExpression] = 100]

\* the cleanup of the effect, README.md 357-362: running = false, the requested
\* frame is cancelled, the renderer is disposed
avatarCleanup_KeepLoop(l) == [l EXCEPT !.disposed = TRUE]
avatarCleanup(l) == [l EXCEPT !.running = FALSE, !.frame = FALSE, !.disposed = TRUE]

\* one run of animate, README.md 311-354, as the callback of the requested
\* frame.  It returns at once when running is false; otherwise it requests the
\* next frame and, with the model loaded, runs the blinking logic and sets the
\* shapes.  idleTime only feeds the sway and breathing of the model's root and
\* is left out.
Animate ==
  /\ loop.frame
  /\ IF ~loop.running
     THEN /\ loop' = [loop EXCEPT !.frame = FALSE]
          /\ UNCHANGED <<blinkTimer, isBlinking, nextBlink, idleBlink, blendShape,
                         blinkRun, lastClosed, lastGap>>
     ELSE IF vrm # "loaded"
     THEN UNCHANGED <<loop, blinkTimer, isBlinking, nextBlink, idleBlink, blendShape,
                      blinkRun, lastClosed, lastGap>>
     ELSE /\ loop' = loop
          /\ \E r \in BlinkRandomSamples :
               LET b == BlinkStep(blinkTimer, isBlinking, nextBlink, r)
               IN /\ blinkTimer' = b.timer
                  /\ isBlinking' = b.blinking
                  /\ nextBlink' = b.delay
                  /\ idleBlink' = b.weight
                  /\ blendShape' = ApplyShapes(blendShape, b.weight)
                  /\ blinkRun' = IF b.weight = idleBlink THEN blinkRun + 1 ELSE 1
                  /\ lastClosed' = IF idleBlink = 100 /\ b.weight = 0 THEN blinkRun ELSE lastClosed
                  /\ lastGap' = IF idleBlink = 0 /\ b.weight = 100 /\ lastClosed > 0
                                THEN blinkRun ELSE lastGap
  /\ UNCHANGED <<vrm, avatarError>>
  /\ UNCHANGED avatarHandleVars
  /\ AvatarUnchangedByRender

\* the component unmounts: the cleanup runs
AvatarUnmount ==
  /\ loop.mounted
  /\ loop' = [avatarCleanup(loop) EXCEPT !.mounted = FALSE]
  /\ UNCHANGED <<vrm, avatarError, blinkTimer, isBlinking, nextBlink, blendShape,
                 idleBlink, blinkRun, lastGap, lastClosed>>
  /\ UNCHANGED avatarHandleVars
  /\ AvatarUnchangedByRender

\* the handle, README.md 365-372, as its callers use it
\* setMouthOpen from a tick of Call's lip-sync interval (Call.tsx 53)
AvatarLipSyncWrite ==
  /\ \E s \in SinSamples, r \in RandomSamples :
       currentMouthOpen' = LipSyncMouthOpen(s, r)
  /\ UNCHANGED <<currentExpression, renderVars>>
  /\ AvatarUnchangedByRender

\* setMouthOpen from the frame callback App registers with Voice (part_001
\* 259-265), for whatever volume it is called with
RawVolumes == {-50, 50, 150}

AvatarFrameWrite ==
  /\ \E volume \in RawVolumes : currentMouthOpen' = OnAudioPlayFrame(volume)
  /\ UNCHANGED <<currentExpression, renderVars>>
  /\ AvatarUnchangedByRender

\* setMouthOpen(0) from stopLipSync and endCall (Call.tsx 65, 260)
AvatarMouthReset ==
  /\ currentMouthOpen' = 0
  /\ UNCHANGED <<currentExpression, renderVars>>
  /\ AvatarUnchangedByRender

\* setExpression from Call (Call.tsx 80, 83, 151, 259)
AvatarSetExpression(e) ==
  /\ currentExpression' = e
  /\ UNCHANGED <<currentMouthOpen, renderVars>>
  /\ AvatarUnchangedByRender

NextAvatar ==
  \/ VrmLoaded
  \/ VrmLoadFailed
  \/ VrmParseFailed
  \/ Animate
  \/ AvatarLipSyncWrite
  \/ AvatarFrameWrite
  \/ AvatarMouthReset
  \/ \E e \in AvatarExpressions : AvatarSetExpression(e)

\* ------------------------------------------------------------------------
\* Properties of the avatar's render loop
\* ------------------------------------------------------------------------
InUnitRange(w) == 0 <= w /\ w <= 100

\* C5: the mouth-open weight and the blink weight set on the model by a render
\* tick are within [0,1], and so is the mouth-open value every producer leaves
\* in the handle for the next tick, whatever raw volume a frame delivers.
C5_WeightsInUnitRange ==
  /\ InUnitRange(blendShape["aa"])
  /\ InUnitRange(blendShape["blink"])
  /\ InUnitRange(currentMouthOpen)
  /\ \A volume \in RawVolumes : InUnitRange(OnAudioPlayFrame(volume))
  /\ \A s \in SinSamples, r \in RandomSamples : InUnitRange(LipSyncMouthOpen(s, r))

\* a tick has pushed a fully open mouth during an idle blink
C5_Witness ==
  /\ vrm = "loaded"
  /\ blendShape["aa"] = 100
  /\ idleBlink = 100
  /\ blendShape["blink"] = 100

\* C9 as stated: between the end of a blink and the start of the next lie
\* 1.5 s to 4.0 s of render ticks, and a blink holds the weight at 1.0 for
\* 0.1 s to 0.2 s of render ticks.
C9_GapAndClosedAsStated ==
  /\ lastGap > 0 => (900 <= lastGap * Tick /\ lastGap * Tick <= 2400)
  /\ lastClosed > 0 => (60 <= lastClosed * Tick /\ lastClosed * Tick <= 120)

\* C9: between the end of a blink and the start of the next lie 1.5 s to
\* 4.0 s plus one tick of render ticks (the tick that ends a blink and the tick
\* that finds the delay exceeded both write weight 0), and a blink holds the
\* weight at 1.0 for 0.1 s to 0.2 s of render ticks.
C9_GapWithinDelayPlusOneTick ==
  /\ lastGap > 0 => (900 <= lastGap * Tick /\ lastGap * Tick <= 2400 + Tick)
  /\ lastClosed > 0 => (60 <= lastClosed * Tick /\ lastClosed * Tick <= 120)

\* a blink was followed, after the longest gap, by the next blink
C9_Witness ==
  /\ lastClosed > 0
  /\ lastGap * Tick = 2400 + Tick
  /\ idleBlink = 100

\* the expressions that show an emotion
EmotionExpressions == AvatarExpressions \ {"blink"}

\* C28: at most one emotion expression has a non-zero weight on the model, and
\* a render tick leaves weight 1 on the current expression and 0 on every other
\* emotion expression.
C28_OneExpressionWeighted ==
  [][ /\ Cardinality({n \in EmotionExpressions : blendShape'[n] > 0}) <= 1
      /\ (vrm = "loaded" /\ loop.running /\ Animate /\ currentExpression \in EmotionExpressions)
           => /\ blendShape'[currentExpression] = 100
              /\ \A n \in EmotionExpressions \ {currentExpression} : blendShape'[n] = 0 ]_vars

\* C25: once the load of the model has failed the error stays set and never
\* changes, the render loop stays running with a frame requested, and no
\* blink, mouth or expression weight is ever set on the model, whatever the
\* callers of the handle write.
C25_LoadFailureKeepsBannerAndLoop ==
  [][ vrm' = "failed" =>
        /\ avatarError' \in {"Failed to load VRM model.", "Failed to parse VRM model."}
        /\ loop'.running /\ loop'.frame
        /\ idleBlink' = 0
        /\ \A n \in ShapeNames : blendShape'[n] = 0
        /\ (vrm = "failed" => avatarError' = avatarError) ]_vars

\* the load failed, and the callers of the handle have since written a mouth
\* value and an expression
C25_Witness ==
  /\ vrm = "failed"
  /\ avatarError = "Failed to load VRM model."
  /\ currentMouthOpen > 0
  /\ currentExpression = "love"
  /\ blendShape["aa"] = 0
  /\ blendShape["love"] = 0

\* C12: once the avatar component has unmounted no animation frame is
\* requested, no run of animate changes anything or requests a frame, and the
\* renderer is disposed, also when the model finishes loading afterwards.
C12_NoTickAfterUnmount ==
  [][ ~loop'.mounted =>
        /\ ~loop'.frame
        /\ loop'.disposed
        /\ (~loop.mounted =>
              UNCHANGED <<loop, blinkTimer, isBlinking, nextBlink, blendShape, idleBlink>>) ]_vars

\* the component unmounted while the model was loading, and the load completed
C12_Witness ==
  /\ ~loop.mounted
  /\ loop.disposed
  /\ vrm = "loaded"
  /\ blinkTimer = 0

\* ------------------------------------------------------------------------
\* analyzeEmotion applied to a text
\* ------------------------------------------------------------------------
AnalyzeEmotion ==
  /\ emotionResult = "none"
  /\ emotionResult' = analyzeEmotion(emotionText)
  /\ UNCHANGED <<emotionText, renderVars, avatarHandleVars>>
  /\ UNCHANGED <<mountVars, callVars, voiceVars, chatVars>>

\* the rules in the order love, joy, sadness, surprise, anger, confusion, blushing
EmotionRules ==
  << [label |-> "love", keywords |-> {"love", "emoji_two_hearts", "emoji_sparkling_heart", "amazing"}],
     [label |-> "joy", keywords |-> {"happy", "emoji_sparkles", "wonderful", "excited"}],
     [label |-> "sadness", keywords |-> {"sad", "miss", "emoji_crying"}],
     [label |-> "surprise", keywords |-> {"surprised", "wow", "emoji_open_mouth"}],
     [label |-> "anger", keywords |-> {"angry", "mad", "emoji_angry"}],
     [label |-> "confusion", keywords |-> {"confused", "hmm", "emoji_thinking"}],
     [label |-> "blushing", keywords |-> {"shy", "blush", "emoji_smiling"}] >>

RuleMatches(n, text) ==
  \E kw \in EmotionRules[n].keywords : includes(toLowerCase(text), kw)

MatchingRules(text) == {n \in DOMAIN EmotionRules : RuleMatches(n, text)}

\* C10: analyzeEmotion returns the label of the first rule, in the order love,
\* joy, sadness, surprise, anger, confusion, blushing, that has a keyword in the
\* lower-cased text, and neutral when no rule has one; a text with a love
\* keyword and a joy keyword is love.
C10_FirstMatchingRuleWins ==
  emotionResult # "none" =>
    /\ emotionResult = analyzeEmotion(emotionText)
    /\ IF MatchingRules(emotionText) = {}
       THEN emotionResult = "neutral"
       ELSE \E n \in MatchingRules(emotionText) :
              /\ \A m \in MatchingRules(emotionText) : n <= m
              /\ emotionResult = EmotionRules[n].label
    /\ ({1, 2} \subseteq MatchingRules(emotionText) => emotionResult = "love")

\* a text with a joy keyword before a love keyword was classified
C10_Witness ==
  /\ emotionResult = "love"
  /\ Len(emotionText) = 2
  /\ RuleMatches(2, <<emotionText[1]>>)
  /\ RuleMatches(1, <<emotionText[2]>>)

\* ------------------------------------------------------------------------
\* The application: App with Chat, Voice and Call
\* ------------------------------------------------------------------------
InitApp ==
  /\ currentMouthOpen = 0
  /\ currentExpression = "neutral"
  /\ appIsInCall = FALSE
  /\ callInst = 0
  /\ voiceInst = 1
  /\ call = CallInitialState
  /\ refs = [i \in CallIds |-> CallInitialRefs]
  /\ orphans = [i \in CallIds |-> [k \in Kinds |-> 0]]
  /\ conversationRef = [i \in CallIds |-> 0]
  /\ blinkRestores = [i \in CallIds |-> 0]
  /\ sessions = [s \in SessionIds |->
                   [st |-> "unused", owner |-> 0, transcript |-> << >>, emotion |-> "neutral",
                    speakingRun |-> 0, heard |-> << >>, micHeld |-> FALSE]]
  /\ callEnded = {}
  /\ voice = VoiceInitialState
  /\ audioElementRef = [v \in VoiceIds |-> 0]
  /\ onAudioPlayFrameRef = [v \in VoiceIds |-> v = 1]
  /\ speaks = [r \in SpeakIds |-> [st |-> "unused", owner |-> 0, raf |-> FALSE]]
  /\ messages = InitialMessages
  /\ isProcessing = FALSE
  /\ isTyping = FALSE
  /\ requests = [q \in SendIds |-> [st |-> "unused", text |-> "", remote |-> "none"]]
  /\ greetingPending = TRUE
  /\ loop = [mounted |-> TRUE, running |-> TRUE, frame |-> TRUE, disposed |-> FALSE]
  /\ vrm = "loading"
  /\ avatarError = "none"
  /\ blinkTimer = 0
  /\ isBlinking = FALSE
  /\ nextBlink \in {NextBlinkDelay(r) : r \in BlinkRandomSamples}
  /\ blendShape = [n \in ShapeNames |-> 0]
  /\ idleBlink = 0
  /\ blinkRun = 0
  /\ lastGap = 0
  /\ lastClosed = 0

Init ==
  /\ InitApp
  /\ emotionText = << >>
  /\ emotionResult = "none"

\* analyzeEmotion is given any text
InitEmotion ==
  /\ InitApp
  /\ emotionText \in Texts
  /\ emotionResult = "none"

\* the Call panel: its button, startCall, the session's callbacks, endCall and
\* the interval and timeout callbacks
NextCall ==
  \/ OpenCallPanel
  \/ \E s \in SessionIds : StartCall(s)
  \/ \E s \in SessionIds : MicGranted(s)
  \/ \E s \in SessionIds : MicDenied(s)
  \/ \E s \in SessionIds : StartSessionFails(s)
  \/ \E s \in SessionIds : OnConnect(s)
  \/ \E s \in SessionIds : SessionResolved(s)
  \/ \E s \in SessionIds : OnDisconnect(s)
  \/ \E s \in SessionIds : OnError(s)
  \/ \E s \in SessionIds, mode \in {"speaking", "listening"} : OnModeChange(s, mode)
  \/ EndCall
  \/ \E i \in CallIds : LipSyncTick(i)
  \/ \E i \in CallIds : BlinkTick(i)
  \/ \E i \in CallIds : BlinkRestore(i)
  \/ \E i \in CallIds : HeadTick(i)
  \/ \E i \in CallIds : CallTimerTick(i)

\* text-to-speech: the fetch, the Audio element's events, the frame loop
NextVoice ==
  \/ StartListening
  \/ \E heard \in Transcripts : RecognitionResult(heard)
  \/ \E r \in SpeakIds : FetchOk(r)
  \/ \E r \in SpeakIds : FetchFail(r)
  \/ \E r \in SpeakIds : LipSyncFrame(r)
  \/ \E r \in SpeakIds : AudioEnded(r)
  \/ \E r \in SpeakIds : AudioError(r)
  \/ StopButton
  \/ ToggleVoiceEnabled

\* the inputs of a reply: the emotion of the remote reply is read only when the
\* remote call returns, the random sample only when it throws
ReplyInputs ==
  {x \in RemoteOutcomes \X ReplyEmotions \X LocalRandomSamples :
     IF generateGeminiResponse(x[1], x[2]).threw
     THEN x[2] = "joy"
     ELSE x[3] = 1}

\* the chat pipeline
NextChat ==
  \/ \E input \in InputValues : TypedSend(input)
  \/ \E text \in QuickMessages : QuickSend(text)
  \/ \E q \in SendIds, x \in ReplyInputs : ReplyArrives(q, x[1], x[2], x[3])
  \/ TranscriptEffect
  \/ GreetingTimer

Next == NextCall \/ NextVoice \/ NextChat

\* the whole application
Spec == Init /\ [][Next]_vars

\* the Call panel alone: no action outside NextCall reads or writes what
\* NextCall's actions read (the Call state and refs, the sessions, App.isInCall)
\* except the avatar's mouthOpen, which text-to-speech frames write as well
SpecCall == Init /\ [][NextCall]_vars

\* text chat with text-to-speech, the Call panel never opened
SpecChat == Init /\ [][NextChat \/ NextVoice]_vars

\* the call controller's session handling and lip-sync, without the blink,
\* head-movement and call-duration ticks
NextSession ==
  \/ OpenCallPanel
  \/ \E s \in SessionIds : StartCall(s)
  \/ \E s \in SessionIds : MicGranted(s)
  \/ \E s \in SessionIds : MicDenied(s)
  \/ \E s \in SessionIds : StartSessionFails(s)
  \/ \E s \in SessionIds : OnConnect(s)
  \/ \E s \in SessionIds : SessionResolved(s)
  \/ \E s \in SessionIds : OnDisconnect(s)
  \/ \E s \in SessionIds : OnError(s)
  \/ \E s \in SessionIds, mode \in {"speaking", "listening"} : OnModeChange(s, mode)
  \/ EndCall
  \/ \E i \in CallIds : LipSyncTick(i)

SpecSession == Init /\ [][NextSession]_vars

\* the same with the user speaking during the call
NextUtterance ==
  \/ NextSession
  \/ \E s \in SessionIds, text \in UserUtterances : UserSpeaks(s, text)

SpecUtterance == Init /\ [][NextUtterance]_vars

\* the senders of chat messages and the replies, without the playback of speech
NextSend ==
  \/ NextChat
  \/ StartListening
  \/ \E heard \in Transcripts : RecognitionResult(heard)

SpecSend == Init /\ [][NextSend]_vars

\* typed and quick messages and their replies, with the delay timer of every
\* accepted send firing and its generateResponse promise settling (part_001
\* 286-288)
NextTyped ==
  \/ \E input \in InputValues : TypedSend(input)
  \/ \E text \in QuickMessages : QuickSend(text)
  \/ \E q \in SendIds, x \in ReplyInputs : ReplyArrives(q, x[1], x[2], x[3])
  \/ GreetingTimer

SpecTypedFair ==
  /\ Init
  /\ [][NextTyped]_vars
  /\ WF_vars(\E q \in SendIds, x \in ReplyInputs : ReplyArrives(q, x[1], x[2], x[3]))

\* the speech of the replies: quick messages, one remote reply each, the fetch
\* of its audio, the Audio element's events, the frame loop and Voice's buttons
NextSpeech ==
  \/ \E text \in QuickMessages : QuickSend(text)
  \/ \E q \in SendIds : ReplyArrives(q, "ok", "joy", 1)
  \/ \E r \in SpeakIds : FetchOk(r)
  \/ \E r \in SpeakIds : FetchFail(r)
  \/ \E r \in SpeakIds : LipSyncFrame(r)
  \/ \E r \in SpeakIds : AudioEnded(r)
  \/ \E r \in SpeakIds : AudioError(r)
  \/ StopButton
  \/ ToggleVoiceEnabled

SpecSpeech == Init /\ [][NextSpeech]_vars

\* text-to-speech and the call together: one chat message and its speech, then
\* the Call panel
NextLipSync ==
  \/ \E text \in QuickMessages : QuickSend(text)
  \/ \E q \in SendIds : ReplyArrives(q, "ok", "joy", 1)
  \/ \E r \in SpeakIds : FetchOk(r)
  \/ \E r \in SpeakIds : LipSyncFrame(r)
  \/ \E r \in SpeakIds : AudioEnded(r)
  \/ OpenCallPanel
  \/ \E s \in SessionIds : StartCall(s)
  \/ \E s \in SessionIds : MicGranted(s)
  \/ \E s \in SessionIds : OnConnect(s)
  \/ \E s \in SessionIds : SessionResolved(s)
  \/ \E s \in SessionIds : OnDisconnect(s)
  \/ \E s \in SessionIds, mode \in {"speaking", "listening"} : OnModeChange(s, mode)
  \/ EndCall
  \/ \E i \in CallIds : LipSyncTick(i)

SpecLipSync == Init /\ [][NextLipSync]_vars

\* the avatar component with the callers of its handle as its environment
SpecAvatar == Init /\ [][NextAvatar]_vars

\* the life of the avatar component: the load, the render loop and the unmount
NextAvatarLife ==
  \/ VrmLoaded
  \/ VrmLoadFailed
  \/ VrmParseFailed
  \/ Animate
  \/ AvatarUnmount

SpecAvatarLife == Init /\ [][NextAvatarLife]_vars

\* the classifier on its own
SpecEmotion == InitEmotion /\ [][AnalyzeEmotion]_vars

====
